---- MODULE Spec2Model ----
(***************************************************************************)
(* The pooled relational client of src/src/db/db.py (class DB) together    *)
(* with the psycopg2 ThreadedConnectionPool and connection objects it      *)
(* drives.  Caller threads run execute_query / execute_non_query; every    *)
(* pool or driver call of a handler is one step, so that calls of          *)
(* different threads and close() interleave as they do under the pool's    *)
(* lock.                                                                   *)
(***************************************************************************)
EXTENDS Naturals, Sequences, FiniteSets

\* ------------------------------------------------------------------ bounds
NThreads == 2
MaxConn == 2

Threads == 1..NThreads
ConnIds == 1..(MaxConn + NThreads)

\* ------------------------------------------------------------ error values
\* psycopg2.pool.PoolError carries one of these messages.
PoolClosedMsg == "PoolError: connection pool is closed"
PoolExhaustedMsg == "PoolError: connection pool exhausted"
PoolUnkeyedMsg == "PoolError: trying to put unkeyed connection"

\* The class of a raised error value: the text before the colon.
ExcClass(e) ==
  IF e \in {PoolClosedMsg, PoolExhaustedMsg, PoolUnkeyedMsg} THEN "PoolError" ELSE e

Ops == {"execute_query", "execute_non_query"}

VARIABLES
  minconn, maxconn,      \* db_config
  pool_obj,              \* self._pool: "None" or "Pool"
  init_err,              \* what DB.__init__ raised
  closed, idle, used,    \* the pool's closed flag, its idle list, its checked-out set
  connState, txn,        \* per connection: none/open/lost/closed, and its transaction status
  pc, op,                \* per thread: position in the handler, which handler
  conn, cursor,          \* per thread: the locals conn (0 is None) and cursor
  exc,                   \* per thread: the exception in flight
  startedIn,             \* per thread: the pool's lifecycle state when the call began
  trace,                 \* per thread: the pool and driver calls made by this call, with outcomes
  close_on, close_err    \* the latest close(): lifecycle state it found, what it raised

cfgVars == <<minconn, maxconn>>
poolVars == <<closed, idle, used>>
connVars == <<connState, txn>>
closeVars == <<close_on, close_err>>
vars == <<minconn, maxconn, pool_obj, init_err, closed, idle, used, connState, txn,
          pc, op, conn, cursor, exc, startedIn, trace,
          close_on, close_err>>

\* ----------------------------------------------------------------- helpers
Last(s) == s[Len(s)]
Front(s) == SubSeq(s, 1, Len(s) - 1)
Range(s) == {s[i] : i \in DOMAIN s}
Min(S) == CHOOSE x \in S : \A y \in S : x <= y

\* Uninitialized -> Ready -> Closed, read off self._pool and the pool's closed flag.
PoolState ==
  IF pool_obj = "None" THEN "Uninitialized"
  ELSE IF closed THEN "Closed" ELSE "Ready"

\* A connection object not referenced by the pool or by any thread.
FreshConn == Min({c \in ConnIds : connState[c] = "none"})

Ev(call, err) == <<call, err>>
Count(tr, call) == Cardinality({i \in DOMAIN tr : tr[i][1] = call})
Has(tr, call, err) == \E i \in DOMAIN tr : tr[i] = Ev(call, err)
Idx(tr, call) == IF \E i \in DOMAIN tr : tr[i][1] = call
                 THEN Min({i \in DOMAIN tr : tr[i][1] = call}) ELSE 0

Goto(t, next, ev) ==
  /\ pc' = [pc EXCEPT ![t] = next]
  /\ trace' = [trace EXCEPT ![t] = Append(@, ev)]

\* -------------------------------------------------------------------- Init
Init ==
  /\ maxconn \in 1..MaxConn
  /\ minconn \in 0..maxconn
  /\ pool_obj = "None"
  /\ init_err = "none"
  /\ closed = FALSE
  /\ idle = <<>>
  /\ used = {}
  /\ connState = [c \in ConnIds |-> "none"]
  /\ txn = [c \in ConnIds |-> "idle"]
  /\ pc = [t \in Threads |-> "idle"]
  /\ op = [t \in Threads |-> "-"]
  /\ conn = [t \in Threads |-> 0]
  /\ cursor = [t \in Threads |-> "none"]
  /\ exc = [t \in Threads |-> "none"]
  /\ startedIn = [t \in Threads |-> "-"]
  /\ trace = [t \in Threads |-> <<>>]
  /\ close_on = "-"
  /\ close_err = "none"

\* DB.__init__ and _initialize_connection_pool: the pool connects minconn
\* connections eagerly, or the constructor raises and no client exists.
Construct ==
  /\ pool_obj = "None"
  /\ init_err = "none"
  /\ \E ok \in BOOLEAN :
       IF ok
       THEN /\ pool_obj' = "Pool"
            /\ idle' = [i \in 1..minconn |-> i]
            /\ connState' = [c \in ConnIds |-> IF c <= minconn THEN "open" ELSE "none"]
            /\ UNCHANGED init_err
       ELSE /\ init_err' = "OperationalError"
            /\ UNCHANGED <<pool_obj, idle, connState>>
  /\ UNCHANGED <<cfgVars, closed, used, txn, pc, op, conn, cursor, exc,
                 startedIn, trace, closeVars>>

\* psycopg2's _getconn on a closed pool: raise PoolError.  conn stays None, so
\* _get_connection's finally clause releases nothing and the call is over.
GetconnClosed(t) ==
  /\ Goto(t, "done", Ev("getconn", PoolClosedMsg))
  /\ exc' = [exc EXCEPT ![t] = PoolClosedMsg]
  /\ UNCHANGED <<idle, used, connVars, conn>>

\* _getconn with an idle connection: pop the last one and mark it checked out.
GetconnPop(t) ==
  /\ idle' = Front(idle)
  /\ used' = used \cup {Last(idle)}
  /\ conn' = [conn EXCEPT ![t] = Last(idle)]
  /\ Goto(t, "cursor", Ev("getconn", "none"))
  /\ UNCHANGED <<connVars, exc>>

\* _getconn with no idle connection and maxconn checked out: raise PoolError.
GetconnExhausted(t) ==
  /\ Goto(t, "done", Ev("getconn", PoolExhaustedMsg))
  /\ exc' = [exc EXCEPT ![t] = PoolExhaustedMsg]
  /\ UNCHANGED <<idle, used, connVars, conn>>

\* _getconn with no idle connection and room left: connect a new one, which
\* fails when the server cannot be reached.
GetconnConnect(t) ==
  \E e \in {"none", "OperationalError"} :
    IF e = "none"
    THEN /\ connState' = [connState EXCEPT ![FreshConn] = "open"]
         /\ used' = used \cup {FreshConn}
         /\ conn' = [conn EXCEPT ![t] = FreshConn]
         /\ Goto(t, "cursor", Ev("getconn", "none"))
         /\ UNCHANGED <<idle, txn, exc>>
    ELSE /\ Goto(t, "done", Ev("getconn", e))
         /\ exc' = [exc EXCEPT ![t] = e]
         /\ UNCHANGED <<idle, used, connVars, conn>>

\* Faulty variant: getconn that does not look at the pool's closed flag.
getconn_NoClosedCheck(t) ==
  IF idle # <<>> THEN GetconnPop(t)
  ELSE IF Cardinality(used) = maxconn THEN GetconnExhausted(t)
  ELSE GetconnConnect(t)

\* Faulty variant: getconn that waits for a release when maxconn are checked out.
getconn_Blocking(t) ==
  IF closed THEN GetconnClosed(t)
  ELSE IF idle # <<>> THEN GetconnPop(t)
  ELSE Cardinality(used) < maxconn /\ GetconnConnect(t)

\* Faulty variant: getconn that connects without comparing against maxconn.
getconn_NoMaxCheck(t) ==
  IF closed THEN GetconnClosed(t)
  ELSE IF idle # <<>> THEN GetconnPop(t)
  ELSE GetconnConnect(t)

\* Faulty variant: getconn that hands out the last idle connection and leaves it idle.
getconn_NoPop(t) ==
  IF closed THEN GetconnClosed(t)
  ELSE IF idle # <<>>
  THEN /\ used' = used \cup {Last(idle)}
       /\ conn' = [conn EXCEPT ![t] = Last(idle)]
       /\ Goto(t, "cursor", Ev("getconn", "none"))
       /\ UNCHANGED <<idle, connVars, exc>>
  ELSE IF Cardinality(used) = maxconn THEN GetconnExhausted(t)
  ELSE GetconnConnect(t)

\* _get_connection, entry: conn = self._pool.getconn().
getconn(t) ==
  IF closed THEN GetconnClosed(t)
  ELSE IF idle # <<>> THEN GetconnPop(t)
  ELSE IF Cardinality(used) = maxconn THEN GetconnExhausted(t)
  ELSE GetconnConnect(t)

\* A thread calls execute_query or execute_non_query; the handler's first step
\* is the acquisition.
Call(t, o) ==
  /\ pool_obj = "Pool"
  /\ pc[t] = "idle"
  /\ op' = [op EXCEPT ![t] = o]
  /\ startedIn' = [startedIn EXCEPT ![t] = PoolState]
  /\ getconn(t)
  /\ UNCHANGED <<cfgVars, pool_obj, init_err, closed, cursor, closeVars>>

\* _get_cursor, entry: cursor = connection.cursor(...).  A closed connection
\* raises InterfaceError and cursor stays None, so the finally clause closes
\* nothing and the connection's release follows.
OpenCursor(t) ==
  /\ pc[t] = "cursor"
  /\ IF connState[conn[t]] = "open"
     THEN /\ cursor' = [cursor EXCEPT ![t] = "open"]
          /\ Goto(t, "execute", Ev("cursor", "none"))
          /\ UNCHANGED exc
     ELSE /\ exc' = [exc EXCEPT ![t] = "InterfaceError"]
          /\ Goto(t, "release", Ev("cursor", "InterfaceError"))
          /\ UNCHANGED cursor
  /\ UNCHANGED <<cfgVars, pool_obj, init_err, poolVars, connVars, op, conn,
                 startedIn, closeVars>>

\* What cursor.execute can do on an open connection whose transaction status
\* is st: the statement runs, or it is rejected (malformed, a constraint); the
\* server refuses every statement in a failed transaction; and the connection
\* may be lost under any statement.
ExecOutcomes(st) ==
  (IF st = "inerror" THEN {"InFailedSqlTransaction"} ELSE {"none", "ProgrammingError"})
    \cup {"OperationalError"}

\* The try body: cursor.execute(query, params) (and, on the read path,
\* cursor.fetchall()).  Success goes on to the commit; any exception goes to
\* the except clause.
Execute(t) ==
  /\ pc[t] = "execute"
  /\ IF connState[conn[t]] # "open"
     THEN /\ exc' = [exc EXCEPT ![t] = "InterfaceError"]
          /\ Goto(t, "rollback", Ev("execute", "InterfaceError"))
          /\ UNCHANGED connVars
     ELSE \E e \in ExecOutcomes(txn[conn[t]]) :
            /\ Goto(t, IF e = "none" THEN "commit" ELSE "rollback", Ev("execute", e))
            /\ exc' = [exc EXCEPT ![t] = e]
            /\ txn' = [txn EXCEPT ![conn[t]] =
                         IF e = "none" THEN "intrans"
                         ELSE IF e = "OperationalError" THEN "idle" ELSE "inerror"]
            /\ connState' = [connState EXCEPT ![conn[t]] =
                               IF e = "OperationalError" THEN "lost" ELSE @]
  /\ UNCHANGED <<cfgVars, pool_obj, init_err, poolVars, op, conn, cursor,
                 startedIn, closeVars>>

\* What conn.commit can do on an open connection: commit, fail and end the
\* transaction (a deferred constraint), or lose the connection.
CommitOutcomes == {"none", "IntegrityError", "OperationalError"}

\* Where a failed commit lands: execute_non_query commits inside the try, so
\* its except clause runs; execute_query commits in the else clause, which no
\* except clause covers.
AfterCommitError(o) == IF o = "execute_non_query" THEN "rollback" ELSE "closecursor"

\* conn.commit().
Commit(t) ==
  /\ pc[t] = "commit"
  /\ IF connState[conn[t]] # "open"
     THEN /\ exc' = [exc EXCEPT ![t] = "InterfaceError"]
          /\ Goto(t, AfterCommitError(op[t]), Ev("commit", "InterfaceError"))
          /\ UNCHANGED connVars
     ELSE \E e \in CommitOutcomes :
            /\ Goto(t, IF e = "none" THEN "closecursor" ELSE AfterCommitError(op[t]),
                    Ev("commit", e))
            /\ exc' = [exc EXCEPT ![t] = e]
            /\ txn' = [txn EXCEPT ![conn[t]] = "idle"]
            /\ connState' = [connState EXCEPT ![conn[t]] =
                               IF e = "OperationalError" THEN "lost" ELSE @]
  /\ UNCHANGED <<cfgVars, pool_obj, init_err, poolVars, op, conn, cursor,
                 startedIn, closeVars>>

\* Faulty variant: an except clause that re-raises without calling conn.rollback().
Rollback_NoRollback(t) ==
  /\ pc[t] = "rollback"
  /\ pc' = [pc EXCEPT ![t] = "closecursor"]
  /\ UNCHANGED <<cfgVars, pool_obj, init_err, poolVars, connVars, op, conn, cursor,
                 exc, startedIn, trace, closeVars>>

\* The except clause: conn.rollback(), then a bare raise of the exception
\* caught.  A rollback that raises replaces the exception in flight.
Rollback(t) ==
  /\ pc[t] = "rollback"
  /\ IF connState[conn[t]] # "open"
     THEN /\ exc' = [exc EXCEPT ![t] = "InterfaceError"]
          /\ Goto(t, "closecursor", Ev("rollback", "InterfaceError"))
          /\ UNCHANGED connVars
     ELSE \E e \in {"none", "OperationalError"} :
            /\ Goto(t, "closecursor", Ev("rollback", e))
            /\ exc' = [exc EXCEPT ![t] = IF e = "none" THEN @ ELSE e]
            /\ txn' = [txn EXCEPT ![conn[t]] = "idle"]
            /\ connState' = [connState EXCEPT ![conn[t]] =
                               IF e = "OperationalError" THEN "lost" ELSE @]
  /\ UNCHANGED <<cfgVars, pool_obj, init_err, poolVars, op, conn, cursor,
                 startedIn, closeVars>>

\* Faulty variant: a cursor closed after the happy path only, not in a finally clause.
CloseCursor_OnSuccessOnly(t) ==
  /\ pc[t] = "closecursor"
  /\ cursor[t] = "open"
  /\ IF exc[t] = "none"
     THEN /\ cursor' = [cursor EXCEPT ![t] = "closed"]
          /\ Goto(t, "release", Ev("cursor.close", "none"))
     ELSE /\ pc' = [pc EXCEPT ![t] = "release"]
          /\ UNCHANGED <<cursor, trace>>
  /\ UNCHANGED <<cfgVars, pool_obj, init_err, poolVars, connVars, op, conn, exc,
                 startedIn, closeVars>>

\* _get_cursor, finally: if cursor: cursor.close().
CloseCursor(t) ==
  /\ pc[t] = "closecursor"
  /\ cursor[t] = "open"
  /\ cursor' = [cursor EXCEPT ![t] = "closed"]
  /\ Goto(t, "release", Ev("cursor.close", "none"))
  /\ UNCHANGED <<cfgVars, pool_obj, init_err, poolVars, connVars, op, conn, exc,
                 startedIn, closeVars>>

\* Faulty variant: a connection put back after the happy path only, not in a finally
\* clause.
Release_OnSuccessOnly(t) ==
  /\ pc[t] = "release"
  /\ conn[t] # 0
  /\ IF exc[t] # "none"
     THEN /\ pc' = [pc EXCEPT ![t] = "done"]
          /\ conn' = [conn EXCEPT ![t] = 0]
          /\ UNCHANGED <<idle, used, connVars, trace, exc>>
     ELSE IF closed
     THEN /\ Goto(t, "done", Ev("putconn", PoolClosedMsg))
          /\ exc' = [exc EXCEPT ![t] = PoolClosedMsg]
          /\ conn' = [conn EXCEPT ![t] = 0]
          /\ UNCHANGED <<idle, used, connVars>>
     ELSE /\ idle' = IF Len(idle) < minconn /\ connState[conn[t]] = "open"
                     THEN Append(idle, conn[t]) ELSE idle
          /\ connState' = [connState EXCEPT ![conn[t]] =
                             IF Len(idle) < minconn /\ @ = "open" THEN "open" ELSE "none"]
          /\ txn' = [txn EXCEPT ![conn[t]] = "idle"]
          /\ used' = used \ {conn[t]}
          /\ conn' = [conn EXCEPT ![t] = 0]
          /\ Goto(t, "done", Ev("putconn", "none"))
          /\ UNCHANGED exc
  /\ UNCHANGED <<cfgVars, pool_obj, init_err, closed, op, cursor,
                 startedIn, closeVars>>

\* psycopg2's _putconn keeps connection c when fewer than minconn are idle and
\* c is open (rolling back a transaction left open), and closes it otherwise.
Keeps(c) == Len(idle) < minconn /\ connState[c] = "open"

\* _get_connection, finally: if conn: self._pool.putconn(conn).  putconn raises
\* on a closed pool and on a connection that is not checked out.
Release(t) ==
  /\ pc[t] = "release"
  /\ conn[t] # 0
  /\ IF closed
     THEN /\ Goto(t, "done", Ev("putconn", PoolClosedMsg))
          /\ exc' = [exc EXCEPT ![t] = PoolClosedMsg]
          /\ conn' = [conn EXCEPT ![t] = 0]
          /\ UNCHANGED <<idle, used, connVars>>
     ELSE IF conn[t] \notin used
     THEN /\ Goto(t, "done", Ev("putconn", PoolUnkeyedMsg))
          /\ exc' = [exc EXCEPT ![t] = PoolUnkeyedMsg]
          /\ conn' = [conn EXCEPT ![t] = 0]
          /\ UNCHANGED <<idle, used, connVars>>
     ELSE /\ idle' = IF Keeps(conn[t]) THEN Append(idle, conn[t]) ELSE idle
          /\ connState' = [connState EXCEPT ![conn[t]] = IF Keeps(conn[t]) THEN "open" ELSE "none"]
          /\ txn' = [txn EXCEPT ![conn[t]] = "idle"]
          /\ used' = used \ {conn[t]}
          /\ conn' = [conn EXCEPT ![t] = 0]
          /\ Goto(t, "done", Ev("putconn", "none"))
          /\ UNCHANGED exc
  /\ UNCHANGED <<cfgVars, pool_obj, init_err, closed, op, cursor,
                 startedIn, closeVars>>

\* The handler returns its results or the exception reaches the caller; the
\* thread is free for its next call.
Return(t) ==
  /\ pc[t] = "done"
  /\ pc' = [pc EXCEPT ![t] = "idle"]
  /\ op' = [op EXCEPT ![t] = "-"]
  /\ cursor' = [cursor EXCEPT ![t] = "none"]
  /\ exc' = [exc EXCEPT ![t] = "none"]
  /\ startedIn' = [startedIn EXCEPT ![t] = "-"]
  /\ trace' = [trace EXCEPT ![t] = <<>>]
  /\ UNCHANGED <<cfgVars, pool_obj, init_err, poolVars, connVars, conn, closeVars>>

\* Faulty variant: a close() that drops the pool (self._pool = None) once it has
\* closed it, so that the client can be constructed over again.
Close_DropsPool ==
  /\ pool_obj = "Pool"
  /\ close_on' = PoolState
  /\ close_err' = "none"
  /\ closed' = FALSE
  /\ pool_obj' = "None"
  /\ idle' = <<>>
  /\ used' = {}
  /\ connState' = [c \in ConnIds |-> IF \E t \in Threads : conn[t] = c THEN "closed" ELSE "none"]
  /\ UNCHANGED <<cfgVars, init_err, txn, pc, op, conn,
                 cursor, exc, startedIn, trace>>

\* DB.close: if self._pool: self._pool.closeall().  psycopg2's _closeall raises
\* on a closed pool; otherwise it closes every idle and checked-out connection
\* and sets the closed flag.  self._pool is left as it is.
Close ==
  /\ pool_obj = "Pool"
  /\ close_on' = PoolState
  /\ IF closed
     THEN /\ close_err' = PoolClosedMsg
          /\ UNCHANGED <<closed, connState>>
     ELSE /\ close_err' = "none"
          /\ closed' = TRUE
          /\ connState' = [c \in ConnIds |->
                             IF c \in Range(idle) \cup used THEN "closed" ELSE connState[c]]
  /\ UNCHANGED <<cfgVars, pool_obj, init_err, idle, used, txn, pc, op, conn,
                 cursor, exc, startedIn, trace>>

Next ==
  \/ Construct
  \/ \E t \in Threads, o \in Ops : Call(t, o)
  \/ \E t \in Threads : OpenCursor(t)
  \/ \E t \in Threads : Execute(t)
  \/ \E t \in Threads : Commit(t)
  \/ \E t \in Threads : Rollback(t)
  \/ \E t \in Threads : CloseCursor(t)
  \/ \E t \in Threads : Release(t)
  \/ \E t \in Threads : Return(t)
  \/ Close

Spec == Init /\ [][Next]_vars

\* ------------------------------------------------------------------ claims
\* What a call did, read off its trace.
Acquired(t) == Has(trace[t], "getconn", "none")
CursorOpened(t) == Has(trace[t], "cursor", "none")
\* The statement reached the server: cursor.execute ran on an open connection.
Submitted(t) == \E i \in DOMAIN trace[t] :
                  trace[t][i][1] = "execute" /\ trace[t][i][2] # "InterfaceError"
\* cursor.execute raised.
ExecFailed(t) == \E i \in DOMAIN trace[t] :
                   trace[t][i][1] = "execute" /\ trace[t][i][2] # "none"
ExecErr(t) == trace[t][Idx(trace[t], "execute")][2]
\* The connections that calls in flight hold.
Held == {conn[t] : t \in Threads} \ {0}
\* The connection was lost or closed under the call.
Disturbed(t) == \E i \in DOMAIN trace[t] :
                  trace[t][i][2] \in {"OperationalError", "InterfaceError", PoolClosedMsg}

\* C1 (as stated): every call that acquired a connection has returned it to the
\* pool exactly once by the time it returns or raises, so no connection stays
\* checked out without a call in flight holding it.
C1_Original ==
  /\ \A t \in Threads :
       pc[t] = "done" /\ Acquired(t) =>
         Count(trace[t], "putconn") = 1 /\ Has(trace[t], "putconn", "none")
  /\ used \subseteq Held

\* C1 (amended): every call that acquired a connection hands it to putconn
\* exactly once before it returns or raises; unless close() has closed the pool
\* meanwhile, putconn succeeds and the checked-out connections are exactly those
\* held by calls in flight, so that with no call in flight nothing is checked
\* out and a sequential call never finds the pool exhausted.
C1_LeakFree ==
  /\ \A t \in Threads :
       /\ Count(trace[t], "putconn") <= 1
       /\ pc[t] = "done" /\ Acquired(t) => Count(trace[t], "putconn") = 1
       /\ Count(trace[t], "putconn") = 1 =>
            Acquired(t) /\ (Has(trace[t], "putconn", "none") \/ closed)
  /\ ~closed => used = Held
  /\ ~closed /\ (\A t \in Threads : pc[t] \in {"idle", "done"}) => used = {}

C1_Witness ==
  /\ maxconn = 1
  /\ ~closed
  /\ used = {}
  /\ \E t \in Threads : /\ pc[t] = "done"
                        /\ Has(trace[t], "rollback", "OperationalError")
                        /\ Has(trace[t], "putconn", "none")
  /\ \E t \in Threads : pc[t] = "done" /\ exc[t] = "none" /\ Has(trace[t], "putconn", "none")

\* C2 (as stated): a call whose cursor.execute fails rolls back, raises a
\* QueryExecutionError wrapping the driver's error, and leaves the pool's idle
\* connections reusable.
C2_Original ==
  /\ \A t \in Threads :
       pc[t] = "done" /\ ExecFailed(t) =>
         /\ Count(trace[t], "rollback") = 1
         /\ ExcClass(exc[t]) = "QueryExecutionError"
  /\ ~closed => \A c \in Range(idle) : connState[c] = "open" /\ txn[c] = "idle"

\* C2 (amended): a call whose cursor.execute fails calls conn.rollback() once,
\* right after the failure and before anything is released, and raises the
\* driver's own error, unwrapped (the error of the rollback or of the release
\* when that fails in turn), never a QueryExecutionError; the connections idle
\* in an open pool are open with no transaction, so every call starts its
\* statement on a connection with no transaction open or failed, and a
\* statement that the server accepts on a connection not lost or closed under
\* it is committed and returns normally.
C2_FailureRollsBack ==
  /\ \A t \in Threads :
       /\ ExecFailed(t) /\ pc[t] \in {"closecursor", "release", "done"} =>
            /\ Count(trace[t], "rollback") = 1
            /\ Idx(trace[t], "rollback") = Idx(trace[t], "execute") + 1
            /\ exc[t] # "none"
            /\ ExcClass(exc[t]) # "QueryExecutionError"
            /\ Has(trace[t], "rollback", "none") /\ ~Has(trace[t], "putconn", PoolClosedMsg)
                 => exc[t] = ExecErr(t)
       /\ pc[t] \in {"cursor", "execute"} => txn[conn[t]] = "idle"
       /\ pc[t] = "done" /\ Has(trace[t], "execute", "none") /\ ~Disturbed(t)
            /\ ~Has(trace[t], "commit", "IntegrityError") =>
            exc[t] = "none" /\ Has(trace[t], "commit", "none")
  /\ ~closed => \A c \in Range(idle) : connState[c] = "open" /\ txn[c] = "idle"

C2_Witness ==
  /\ maxconn = 1
  /\ minconn = 1
  /\ \E t \in Threads : /\ pc[t] = "done"
                        /\ exc[t] = "ProgrammingError"
                        /\ trace[t] = <<Ev("getconn", "none"), Ev("cursor", "none"),
                                        Ev("execute", "ProgrammingError"), Ev("rollback", "none"),
                                        Ev("cursor.close", "none"), Ev("putconn", "none")>>
  /\ \E t \in Threads : /\ pc[t] = "done"
                        /\ exc[t] = "none"
                        /\ Has(trace[t], "commit", "none")
  /\ idle = <<1>>

\* C3 (as stated): a call made after close() raises PoolClosedError without
\* attempting to acquire a connection.
C3_Original ==
  \A t \in Threads :
    pc[t] = "done" /\ startedIn[t] = "Closed" =>
      ExcClass(exc[t]) = "PoolClosedError" /\ Count(trace[t], "getconn") = 0

\* C3 (amended): a call made after close() is never kept waiting: it attempts
\* the acquisition, which raises psycopg2's PoolError (connection pool is
\* closed) at once, and the call ends there with no connection, no cursor and
\* no statement executed.
C3_ClosedFailsFast ==
  \A t \in Threads :
    /\ startedIn[t] = "Closed" =>
         /\ pc[t] = "done"
         /\ exc[t] = PoolClosedMsg
         /\ ExcClass(exc[t]) = "PoolError"
         /\ trace[t] = <<Ev("getconn", PoolClosedMsg)>>
         /\ conn[t] = 0
         /\ cursor[t] = "none"
    /\ PoolState = "Closed" /\ pc[t] = "idle" =>
         \A o \in Ops : ENABLED Call(t, o)

C3_Witness ==
  \E t \in Threads : /\ startedIn[t] = "Closed"
                     /\ pc[t] = "done"
                     /\ exc[t] = PoolClosedMsg
                     /\ close_on = "Ready"

\* C4 (as stated): close() on a client already closed raises nothing.
C4_Original == close_on = "Closed" => close_err = "none"

\* C5 (as stated): no call fails because the pool is exhausted; it waits for a
\* release instead.
C5_Original == \A t \in Threads : exc[t] # PoolExhaustedMsg

\* C5 (amended): when no connection is idle and maxconn are checked out, a
\* further call does not wait: its acquisition raises PoolError (connection pool
\* exhausted) at once, exactly in that situation, and the call ends with no
\* connection, no cursor and no statement executed, leaving the pool and the
\* calls in flight as they were.
C5_ExhaustedFailsFast ==
  /\ [](\A t \in Threads :
          /\ exc[t] = PoolExhaustedMsg =>
               /\ pc[t] = "done"
               /\ trace[t] = <<Ev("getconn", PoolExhaustedMsg)>>
               /\ conn[t] = 0
               /\ cursor[t] = "none"
          /\ pool_obj = "Pool" /\ pc[t] = "idle" =>
               \A o \in Ops : ENABLED Call(t, o))
  /\ [][\A t \in Threads :
          pc[t] = "idle" /\ pc'[t] # "idle" =>
            /\ exc'[t] = PoolExhaustedMsg <=>
                 (~closed /\ idle = <<>> /\ Cardinality(used) = maxconn)
            /\ exc'[t] = PoolExhaustedMsg =>
                 /\ UNCHANGED <<poolVars, connVars>>
                 /\ \A u \in Threads \ {t} : pc'[u] = pc[u] /\ conn'[u] = conn[u]]_vars

C5_Witness ==
  /\ ~closed
  /\ Cardinality(used) = maxconn
  /\ \E t, u \in Threads : /\ pc[t] = "done" /\ exc[t] = PoolExhaustedMsg
                           /\ pc[u] = "execute" /\ conn[u] \in used

\* C6: the number of connections checked out never exceeds maxconn.
C6_BoundedCheckout == Cardinality(used) <= maxconn

C6_Witness ==
  /\ maxconn = 2
  /\ Cardinality(used) = 2
  /\ \E t, u \in Threads : t # u /\ pc[t] = "execute" /\ pc[u] = "commit"

\* C7: no two calls in flight hold the same connection, and a connection held
\* by a call is checked out, not idle in the pool.
C7_ExclusiveLease ==
  /\ \A t, u \in Threads : t # u /\ conn[t] # 0 => conn[t] # conn[u]
  /\ \A t \in Threads : conn[t] # 0 => conn[t] \in used /\ conn[t] \notin Range(idle)

C7_Witness ==
  /\ minconn = 2
  /\ \E t, u \in Threads : /\ t # u
                           /\ conn[t] = 1 /\ conn[u] = 2
                           /\ pc[t] = "rollback" /\ pc[u] = "release"

\* C8: the pool's lifecycle only moves Uninitialized -> Ready -> Closed: a
\* closed pool stays closed and a ready one is never unbuilt; and a call that
\* began while the pool was not Ready never holds a connection, opens a cursor
\* or executes a statement.
C8_Lifecycle ==
  /\ [][/\ PoolState = "Closed" => PoolState' = "Closed"
        /\ PoolState = "Ready" => PoolState' \in {"Ready", "Closed"}
        /\ PoolState = "Uninitialized" => PoolState' \in {"Uninitialized", "Ready"}]_vars
  /\ [](\A t \in Threads :
          /\ pc[t] # "idle" => startedIn[t] \in {"Ready", "Closed"}
          /\ startedIn[t] # "Ready" =>
               /\ conn[t] = 0
               /\ cursor[t] = "none"
               /\ ~Acquired(t)
               /\ Count(trace[t], "cursor") = 0
               /\ Count(trace[t], "execute") = 0)

C8_Witness ==
  /\ PoolState = "Closed"
  /\ close_on = "Closed"
  /\ \E t, u \in Threads : /\ startedIn[t] = "Closed" /\ pc[t] = "done"
                           /\ startedIn[u] = "Ready" /\ pc[u] = "done"
                           /\ Has(trace[u], "putconn", PoolClosedMsg)

\* C9 (as stated): on the read and on the write path, a call that submitted a
\* statement has committed it or called rollback (also when the commit itself
\* failed) before its connection is released, and no connection idle in the
\* pool has a transaction open.
C9_Original ==
  /\ \A t \in Threads :
       pc[t] \in {"release", "done"} /\ Submitted(t) =>
         Has(trace[t], "commit", "none") \/ Count(trace[t], "rollback") >= 1
  /\ ~closed => \A c \in Range(idle) : txn[c] = "idle"

\* C10: a call opens its cursor only once it holds a connection and before it
\* executes; whatever the outcome, the cursor is closed exactly once, after the
\* last driver call and before the connection is handed to putconn.
C10_CursorNested ==
  \A t \in Threads :
    LET tr == trace[t] IN
    /\ Count(tr, "cursor") <= 1
    /\ Count(tr, "cursor.close") <= 1
    /\ Count(tr, "cursor") = 1 => tr[1] = Ev("getconn", "none") /\ Idx(tr, "cursor") = 2
    /\ Count(tr, "execute") >= 1 => CursorOpened(t) /\ Idx(tr, "execute") = 3
    /\ cursor[t] = "open" => conn[t] # 0 /\ conn[t] \in used /\ Count(tr, "putconn") = 0
    /\ CursorOpened(t) /\ pc[t] \in {"release", "done"} => Count(tr, "cursor.close") = 1
    /\ Count(tr, "putconn") >= 1 /\ CursorOpened(t) =>
         Idx(tr, "cursor.close") = Idx(tr, "putconn") - 1
    /\ \A i \in DOMAIN tr :
         tr[i][1] \in {"execute", "commit", "rollback"} =>
           /\ Idx(tr, "cursor") < i
           /\ Count(tr, "cursor.close") = 1 => i < Idx(tr, "cursor.close")
    /\ CursorOpened(t) <=> cursor[t] # "none"

C10_Witness ==
  \E t \in Threads :
    /\ pc[t] = "done"
    /\ trace[t] = <<Ev("getconn", "none"), Ev("cursor", "none"), Ev("execute", "none"),
                    Ev("commit", "IntegrityError"), Ev("rollback", "OperationalError"),
                    Ev("cursor.close", "none"), Ev("putconn", "none")>>

====
